---- MODULE Spec2Model ----
(***************************************************************************)
(* Model of containers/repo-analyzer/server.py: the snapshot store under   *)
(* /repos, the clone handler (rm -rf, then git clone --depth 1), and the   *)
(* three readers list_files, get_file and analyze_files.                   *)
(*                                                                         *)
(* Strings are sequences of one-character strings, so that os.path.join,   *)
(* os.path.normpath, str.startswith, str.replace and the `in` substring    *)
(* test are computed character by character as the library computes them.  *)
(* The filesystem maps canonical paths (sequences of segment names) to     *)
(* nodes; the kernel's path resolution walks it component by component.    *)
(***************************************************************************)
EXTENDS Integers, Sequences, FiniteSets, TLC

VARIABLES fs, clones, started, resp

vars == <<fs, clones, started, resp>>

-----------------------------------------------------------------------------
(* Bounds of the model *)

\* number of clone requests a behaviour may start
MaxClones == 2

\* longest file_paths list of an analyze request
MaxBatch == 2

-----------------------------------------------------------------------------
(* Strings *)

None == <<"<None>">>

SLASH == "/"

Drop(s, n) == IF n >= Len(s) THEN <<>> ELSE SubSeq(s, n + 1, Len(s))

\* str.startswith
StartsWith(s, p) == Len(p) <= Len(s) /\ SubSeq(s, 1, Len(p)) = p

\* the `in` operator on strings: sub occurs in s
Contains(s, sub) == \E i \in 0..(Len(s) - Len(sub)) : SubSeq(s, i + 1, i + Len(sub)) = sub

RECURSIVE Replace(_, _, _)
\* str.replace(old, new): every non-overlapping occurrence, left to right
Replace(s, old, new) ==
    IF s = <<>> THEN <<>>
    ELSE IF StartsWith(s, old) THEN new \o Replace(Drop(s, Len(old)), old, new)
    ELSE <<Head(s)>> \o Replace(Tail(s), old, new)

RECURSIVE SplitAcc(_, _, _)
SplitAcc(s, cur, acc) ==
    IF s = <<>> THEN Append(acc, cur)
    ELSE IF Head(s) = SLASH THEN SplitAcc(Tail(s), <<>>, Append(acc, cur))
    ELSE SplitAcc(Tail(s), Append(cur, Head(s)), acc)

\* str.split('/'): the components between slashes, empty ones included
Split(s) == SplitAcc(s, <<>>, <<>>)

RECURSIVE JoinSlash(_)
\* '/'.join(comps)
JoinSlash(comps) ==
    IF comps = <<>> THEN <<>>
    ELSE IF Len(comps) = 1 THEN Head(comps)
    ELSE Head(comps) \o <<SLASH>> \o JoinSlash(Tail(comps))

-----------------------------------------------------------------------------
(* posixpath *)

DOT == <<".">>
DOTDOT == <<".", ".">>

\* posixpath.join(a, b)
PathJoin(a, b) ==
    IF StartsWith(b, <<SLASH>>) THEN b
    ELSE IF a = <<>> \/ a[Len(a)] = SLASH THEN a \o b
    ELSE a \o <<SLASH>> \o b

RECURSIVE NormComps(_, _, _)
\* the loop of posixpath.normpath over the components
NormComps(comps, new, initial) ==
    IF comps = <<>> THEN new
    ELSE LET c == Head(comps) IN
         IF c = <<>> \/ c = DOT THEN NormComps(Tail(comps), new, initial)
         ELSE IF c # DOTDOT \/ (initial = 0 /\ new = <<>>)
                 \/ (new # <<>> /\ new[Len(new)] = DOTDOT)
              THEN NormComps(Tail(comps), Append(new, c), initial)
         ELSE IF new # <<>>
              THEN NormComps(Tail(comps), SubSeq(new, 1, Len(new) - 1), initial)
         ELSE NormComps(Tail(comps), new, initial)

\* posixpath.normpath
NormPath(s) ==
    IF s = <<>> THEN DOT
    ELSE LET initial == IF ~StartsWith(s, <<SLASH>>) THEN 0
                        ELSE IF StartsWith(s, <<SLASH, SLASH>>)
                                /\ ~StartsWith(s, <<SLASH, SLASH, SLASH>>) THEN 2
                        ELSE 1
             body == JoinSlash(NormComps(Split(s), <<>>, initial))
             path == (IF initial = 2 THEN <<SLASH, SLASH>>
                      ELSE IF initial = 1 THEN <<SLASH>> ELSE <<>>) \o body
         IN IF path = <<>> THEN DOT ELSE path

\* the working directory of the server process (only used for relative paths)
Cwd == <<SLASH>>

\* posixpath.abspath
AbsPath(s) == IF StartsWith(s, <<SLASH>>) THEN NormPath(s) ELSE NormPath(PathJoin(Cwd, s))

\* posixpath.relpath(path, start), for a canonical path below the canonical start
RelPath(path, start) == JoinSlash(SubSeq(path, Len(start) + 1, Len(path)))

-----------------------------------------------------------------------------
(* The filesystem: canonical path -> node *)

DirNode == [dir |-> TRUE, data |-> <<>>]

FileNode(c) == [dir |-> FALSE, data |-> c]

Missing == <<<<"<missing>">>>>

RECURSIVE Walk(_, _, _)
\* the kernel's resolution of the components comps from the directory cur
Walk(f, cur, comps) ==
    IF cur = Missing THEN Missing
    ELSE IF comps = <<>> THEN cur
    ELSE IF ~(cur \in DOMAIN f /\ f[cur].dir) THEN Missing
    ELSE LET c == Head(comps) IN
         IF c = <<>> \/ c = DOT THEN Walk(f, cur, Tail(comps))
         ELSE IF c = DOTDOT
              THEN Walk(f, IF cur = <<>> THEN cur ELSE SubSeq(cur, 1, Len(cur) - 1), Tail(comps))
         ELSE Walk(f, IF Append(cur, c) \in DOMAIN f THEN Append(cur, c) ELSE Missing, Tail(comps))

\* the canonical path a path string names in f, or Missing (ENOENT, ENOTDIR)
Resolve(f, s) ==
    IF s = <<>> THEN Missing
    ELSE Walk(f, IF StartsWith(s, <<SLASH>>) THEN <<>> ELSE NormComps(Split(Cwd), <<>>, 1), Split(s))

\* os.path.exists
Exists(f, s) == Resolve(f, s) # Missing

\* os.path.isfile
IsFile(f, s) == Exists(f, s) /\ ~f[Resolve(f, s)].dir

\* os.path.isdir
IsDir(f, s) == Exists(f, s) /\ f[Resolve(f, s)].dir

IsPrefix(p, q) == Len(p) <= Len(q) /\ SubSeq(q, 1, Len(p)) = p

\* the nodes strictly below the canonical path p
Below(f, p) == {q \in DOMAIN f : IsPrefix(p, q) /\ q # p}

-----------------------------------------------------------------------------
(* File contents: runs of equal bytes-or-characters, so that a file larger *)
(* than the default size cap is a short value                              *)

\* a character of two UTF-8 bytes, and a byte that is no valid UTF-8
EACUTE == "e'"
BADBYTE == "\\xff"

Run(c, k) == [ch |-> c, n |-> k]

\* the number of UTF-8 bytes of one unit
Width(c) == IF c = EACUTE THEN 2 ELSE 1

RECURSIVE Runs(_)
\* the content holding the characters of the string s
Runs(s) == IF s = <<>> THEN <<>> ELSE <<Run(Head(s), 1)>> \o Runs(Tail(s))

RECURSIVE Size(_)
\* st_size: the number of bytes of a content
Size(d) == IF d = <<>> THEN 0 ELSE Head(d).n * Width(Head(d).ch) + Size(Tail(d))

\* decoding with encoding='utf-8', errors='ignore': invalid bytes are dropped
Decode(d) == SelectSeq(d, LAMBDA r : r.ch # BADBYTE)

RECURSIVE CTake(_, _)
\* the first k characters of a text
CTake(d, k) ==
    IF d = <<>> \/ k <= 0 THEN <<>>
    ELSE IF Head(d).n <= k THEN <<Head(d)>> \o CTake(Tail(d), k - Head(d).n)
    ELSE <<Run(Head(d).ch, k)>>

\* an optional integer argument: left out, or given with value k
Omitted == [given |-> FALSE, v |-> 0]
Given(k) == [given |-> TRUE, v |-> k]

\* read(size) on a file opened in binary mode: bytes, nothing decoded or dropped
ReadBinary(d, size) ==
    IF ~size.given THEN Decode(d)
    ELSE IF size.v < 0 THEN d ELSE CTake(d, size.v)

\* TextIOWrapper.read(size): all of the text when size is left out or negative
ReadText(d, size) ==
    IF ~size.given \/ size.v < 0 THEN Decode(d) ELSE CTake(Decode(d), size.v)

-----------------------------------------------------------------------------
(* The server *)

REPO_DIR == <<"/", "r", "e", "p", "o", "s">>

\* names of the nodes a container starts with: the storage root and /etc/passwd
REPO_DIR_NAME == <<"r", "e", "p", "o", "s">>
ETC == <<"e", "t", "c">>
PASSWD == <<"p", "a", "s", "s", "w", "d">>

GIT == <<".", "g", "i", "t">>

\* the default of max_size in analyze_files
DefaultMaxSize == 8000

\* `x is None` in place of `not x`: the empty string passes
IsNone(x) == x = None

\* `not x` for a request parameter: absent (None) or the empty string
Falsy(x) == x = None \/ x = <<>>

\* os.path.join(REPO_DIR, f"{owner}_{repo}")
RepoPath(owner, repo) == PathJoin(REPO_DIR, owner \o <<"_">> \o repo)

Response(st, err, body) == [status |-> st, error |-> err, body |-> body]

NoBody == <<>>
NoError == ""

\* the security check of get_file and analyze_files: the path is rejected when FALSE
WithinRepo(full_path, repo_path) == StartsWith(AbsPath(full_path), AbsPath(repo_path))

\* dirs[:] = [d for d in dirs if d != '.git']: the walk descends into q's directories
\* unless one of them, below the root, is named .git
Descends(root, q) ==
    \A i \in (Len(root) + 1)..(Len(q) - 1) : q[i] # GIT

\* if '.git' in rel_path: continue
SkippedByName(rel_path) == Contains(rel_path, GIT)

RECURSIVE SeqOf(_)
\* the elements of a finite set in some order (os.walk lists in directory order)
SeqOf(S) == IF S = {} THEN <<>> ELSE LET x == CHOOSE y \in S : TRUE IN <<x>> \o SeqOf(S \ {x})

\* the elements of a sequence
Range(q) == {q[i] : i \in DOMAIN q}

\* list_files without its two .git tests: every file of the tree is listed
WalkFilesAll(f, repo_path) ==
    LET root == Resolve(f, repo_path) IN
    {[path |-> RelPath(q, root), type |-> "file", size |-> Size(f[q].data)] :
        q \in {x \in Below(f, root) : ~f[x].dir}}

\* list_files reporting the directories of the tree like its files
WalkFilesAndDirs(f, repo_path) ==
    LET root == Resolve(f, repo_path) IN
    {[path |-> RelPath(q, root), type |-> "file", size |-> Size(f[q].data)] :
        q \in Below(f, root)}

\* the records list_files collects in its walk of repo_path
WalkFiles(f, repo_path) ==
    LET root == Resolve(f, repo_path) IN
    {[path |-> RelPath(q, root), type |-> "file", size |-> Size(f[q].data)] :
        q \in {x \in Below(f, root) : /\ ~f[x].dir
                                      /\ Descends(root, x)
                                      /\ ~SkippedByName(RelPath(x, root))}}

\* list_files without the test of lines 73-74: a key without a directory is answered
\* with an empty listing
ListFilesNoCheck(f, owner, repo) ==
    IF Falsy(owner) \/ Falsy(repo)
    THEN Response(400, "Missing owner or repo parameter", NoBody)
    ELSE LET repo_path == RepoPath(owner, repo) IN
         IF ~Exists(f, repo_path) THEN Response(200, NoError, [files |-> <<>>])
         ELSE Response(200, NoError, [files |-> SeqOf(WalkFiles(f, repo_path))])

\* GET /files
ListFiles(f, owner, repo) ==
    IF Falsy(owner) \/ Falsy(repo)
    THEN Response(400, "Missing owner or repo parameter", NoBody)
    ELSE LET repo_path == RepoPath(owner, repo) IN
         IF ~Exists(f, repo_path) THEN Response(404, "Repository not cloned", NoBody)
         ELSE Response(200, NoError, [files |-> SeqOf(WalkFiles(f, repo_path))])

\* GET /file/<path:file_path>
GetFile(f, file_path, owner, repo) ==
    IF Falsy(owner) \/ Falsy(repo)
    THEN Response(400, "Missing owner or repo parameter", NoBody)
    ELSE LET repo_path == RepoPath(owner, repo)
             full_path == PathJoin(repo_path, file_path)
         IN IF ~WithinRepo(full_path, repo_path) THEN Response(400, "Invalid file path", NoBody)
            ELSE IF ~Exists(f, full_path) THEN Response(404, "File not found", NoBody)
            ELSE IF ~IsFile(f, full_path) THEN Response(400, "Path is not a file", NoBody)
            ELSE Response(200, NoError,
                          [path |-> file_path,
                           content |-> ReadText(f[Resolve(f, full_path)].data, Omitted)])

Entry(p, c, e) == [path |-> p, content |-> c, error |-> e]

\* one iteration of the loop of analyze_files
AnalyzeOne(f, repo_path, file_path, max_size) ==
    LET full_path == PathJoin(repo_path, file_path) IN
    IF ~WithinRepo(full_path, repo_path) THEN Entry(file_path, <<>>, "Invalid file path")
    ELSE IF ~Exists(f, full_path) \/ ~IsFile(f, full_path)
         THEN Entry(file_path, <<>>, "File not found")
    ELSE Entry(file_path, ReadText(f[Resolve(f, full_path)].data, max_size), NoError)

RECURSIVE AnalyzeLoop(_, _, _, _)
\* the loop of analyze_files: results, in the order of file_paths
AnalyzeLoop(f, repo_path, file_paths, max_size) ==
    IF file_paths = <<>> THEN <<>>
    ELSE <<AnalyzeOne(f, repo_path, Head(file_paths), max_size)>>
             \o AnalyzeLoop(f, repo_path, Tail(file_paths), max_size)

\* analyze_files leaving out the entries of the paths it rejects
AnalyzeFilesDropsFailed(f, owner, repo, file_paths, max_size_arg) ==
    LET max_size == IF max_size_arg.given THEN max_size_arg ELSE Given(8000) IN
    IF Falsy(owner) \/ Falsy(repo)
    THEN Response(400, "Missing owner or repo parameter", NoBody)
    ELSE LET repo_path == RepoPath(owner, repo) IN
         IF ~Exists(f, repo_path) THEN Response(404, "Repository not cloned", NoBody)
         ELSE Response(200, NoError,
                       [files |-> SelectSeq(AnalyzeLoop(f, repo_path, file_paths, max_size),
                                            LAMBDA e : e.error = NoError)])

\* POST /analyze; max_size_arg is Omitted when the request body has no max_size
AnalyzeFiles(f, owner, repo, file_paths, max_size_arg) ==
    LET max_size == IF max_size_arg.given THEN max_size_arg ELSE Given(DefaultMaxSize) IN
    IF Falsy(owner) \/ Falsy(repo)
    THEN Response(400, "Missing owner or repo parameter", NoBody)
    ELSE LET repo_path == RepoPath(owner, repo) IN
         IF ~Exists(f, repo_path) THEN Response(404, "Repository not cloned", NoBody)
         ELSE Response(200, NoError,
                       [files |-> AnalyzeLoop(f, repo_path, file_paths, max_size)])

-----------------------------------------------------------------------------
(* The environment: remote repositories and the git and rm processes *)

A == <<"a">>
B == <<"b">>
A_B == <<"a", "_", "b">>
B_B == <<"b", "_", "b">>

HTTPS == <<"h", "t", "t", "p", "s", ":", "/", "/">>

\* the remote URL and the credential a behaviour's clone requests carry
RepoUrl == HTTPS \o <<"h">>
Token == <<"T">>

\* the work-tree files of the two states of the remote, in the order git writes them
WorkTree(ver) ==
    IF ver = 1
    THEN << <<<<<<".", "g", "i", "t", "i", "g", "n", "o", "r", "e">>>>, <<Run("x", 1)>>>>,
            <<<<<<"f">>>>, <<Run("x", 1), Run(EACUTE, 2), Run(BADBYTE, 1), Run("x", 1)>>>> >>
    ELSE << <<<<<<"g">>>>, <<Run("x", 9000)>>>> >>

Versions == {1, 2}

\* the tree without the subtree at the canonical path p
RemoveTree(f, p) == [q \in {x \in DOMAIN f : ~IsPrefix(p, x)} |-> f[q]]

\* the tree with node nd at the canonical path p
WithNode(f, p, nd) == [q \in DOMAIN f \cup {p} |-> IF q = p THEN nd ELSE f[q]]

\* what git clone creates before the work tree: the directory, .git and .git/config,
\* which records the URL the clone was given
GitInit(f, p, clone_url) ==
    WithNode(WithNode(WithNode(f, p, DirNode), Append(p, GIT), DirNode),
             Append(p, GIT) \o <<<<"c", "o", "n", "f", "i", "g">>>>, FileNode(Runs(clone_url)))

\* the canonical path a path string will name once created (its parent exists)
Target(f, s) ==
    LET comps == Split(s)
        parent == Walk(f, <<>>, SubSeq(comps, 1, Len(comps) - 1))
    IN IF parent = Missing THEN Missing ELSE Append(parent, comps[Len(comps)])

\* the trees an interrupted rm -rf of p can leave: p and any of its nodes, each with
\* its ancestors
Leftovers(f, p) ==
    {f2 \in {[q \in (DOMAIN f \ Below(f, p)) \cup keep |-> f[q]] : keep \in SUBSET Below(f, p)} :
        \A q \in DOMAIN f2 : q = <<>> \/ SubSeq(q, 1, Len(q) - 1) \in DOMAIN f2}

-----------------------------------------------------------------------------
(* State *)
(* fs      the filesystem of the container                                  *)
(* clones  the clone requests in progress, one record per handler           *)
(* started the number of clone requests accepted so far                     *)
(* resp    the response sent last, with the request it answers              *)

NoResp == [op |-> "none", req |-> <<>>, r |-> Response(0, NoError, NoBody)]

Reply(op, req, r) == [op |-> op, req |-> req, r |-> r]

\* the sequence s without its i-th element
Without(s, i) == SubSeq(s, 1, i - 1) \o SubSeq(s, i + 1, Len(s))

Init ==
    /\ fs = (<< >> :> DirNode) @@ (<<REPO_DIR_NAME>> :> DirNode)
            @@ (<<ETC>> :> DirNode) @@ (<<ETC, PASSWD>> :> FileNode(<<Run("s", 1)>>))
    /\ clones = <<>>
    /\ started = 0
    /\ resp = NoResp

-----------------------------------------------------------------------------
(* POST /clone, step by step: the handler blocks in rm and in git while the  *)
(* server's other workers run                                              *)

\* repo_url.replace('https://', f'https://{token}@') if token else repo_url
CloneUrl(repo_url, token) ==
    IF Falsy(token) THEN repo_url
    ELSE Replace(repo_url, HTTPS, HTTPS \o token \o <<"@">>)

\* a clone request as its response names it. alone and old are history: whether no
\* other clone was in progress during this one, and the nodes line 37 found
CloneReq(c) ==
    [owner |-> c.owner, repo |-> c.repo, url |-> c.url, token |-> c.token, ver |-> c.ver,
     alone |-> c.alone, old |-> c.old]

\* lines 24-33: the parameters are read and validated
CloneBegin(repo_url, owner, repo, token) ==
    /\ started < MaxClones
    /\ IF Falsy(repo_url) \/ Falsy(owner) \/ Falsy(repo)
       THEN /\ resp' = Reply("clone",
                             [owner |-> owner, repo |-> repo, url |-> repo_url, token |-> token,
                              ver |-> 0, alone |-> clones = <<>>, old |-> {}],
                             Response(400, "Missing required parameters", NoBody))
            /\ UNCHANGED <<fs, clones, started>>
       ELSE /\ clones' = Append([j \in DOMAIN clones |-> [clones[j] EXCEPT !.alone = FALSE]],
                                [pc |-> "rm", owner |-> owner, repo |-> repo, url |-> repo_url,
                                 token |-> token, ver |-> 0, k |-> 0,
                                 alone |-> clones = <<>>, old |-> {}])
            /\ started' = started + 1
            /\ resp' = NoResp
            /\ UNCHANGED fs

\* clone_repo without the removal of the existing directory
CloneRmSkipped(i) ==
    LET c == clones[i]
        repo_path == RepoPath(c.owner, c.repo)
        found == IF Exists(fs, repo_path) THEN Below(fs, Resolve(fs, repo_path)) ELSE {}
    IN /\ c.pc = "rm"
       /\ clones' = [clones EXCEPT ![i].pc = "git", ![i].old = found]
       /\ resp' = NoResp
       /\ UNCHANGED <<fs, started>>

\* lines 37-38, rm -rf exits 0 (or nothing is there): the directory is gone
CloneRm(i) ==
    LET c == clones[i]
        repo_path == RepoPath(c.owner, c.repo)
        found == IF Exists(fs, repo_path) THEN Below(fs, Resolve(fs, repo_path)) ELSE {}
    IN /\ c.pc = "rm"
       /\ fs' = IF Exists(fs, repo_path) THEN RemoveTree(fs, Resolve(fs, repo_path)) ELSE fs
       /\ clones' = [clones EXCEPT ![i].pc = "git", ![i].old = found]
       /\ resp' = NoResp
       /\ UNCHANGED started

\* clone_repo with check=False at line 38: a failed rm -rf is ignored and git is run
CloneRmFailsIgnored(i) ==
    LET c == clones[i]
        repo_path == RepoPath(c.owner, c.repo)
    IN /\ c.pc = "rm"
       /\ Exists(fs, repo_path)
       /\ fs' \in Leftovers(fs, Resolve(fs, repo_path))
       /\ clones' = [clones EXCEPT ![i].pc = "git",
                                   ![i].old = Below(fs, Resolve(fs, repo_path))]
       /\ resp' = NoResp
       /\ UNCHANGED started

\* lines 37-38 and 59-60, rm -rf exits non-zero: check=True raises, the handler
\* answers 500 with whatever rm left
CloneRmFails(i) ==
    LET c == clones[i]
        repo_path == RepoPath(c.owner, c.repo)
    IN /\ c.pc = "rm"
       /\ Exists(fs, repo_path)
       /\ fs' \in Leftovers(fs, Resolve(fs, repo_path))
       /\ clones' = Without(clones, i)
       /\ resp' = Reply("clone", CloneReq(c), Response(500, "CalledProcessError", NoBody))
       /\ UNCHANGED started

\* lines 41-47, git starts: it refuses a destination that exists and is not an
\* empty directory, otherwise creates it with .git inside
GitStart(i, ver) ==
    LET c == clones[i]
        repo_path == RepoPath(c.owner, c.repo)
    IN /\ c.pc = "git"
       /\ IF Exists(fs, repo_path)
             /\ (IsFile(fs, repo_path) \/ Below(fs, Resolve(fs, repo_path)) # {})
          THEN /\ clones' = Without(clones, i)
               /\ resp' = Reply("clone", CloneReq(c),
                                Response(500, "Git clone failed: destination exists", NoBody))
               /\ UNCHANGED fs
          ELSE /\ Target(fs, repo_path) # Missing
               /\ fs' = GitInit(fs, Target(fs, repo_path), CloneUrl(c.url, c.token))
               /\ clones' = [clones EXCEPT ![i].pc = "checkout", ![i].ver = ver]
               /\ resp' = NoResp
       /\ UNCHANGED started

\* git writes the next file of the work tree
GitWrite(i) ==
    LET c == clones[i]
        repo_path == RepoPath(c.owner, c.repo)
        files == WorkTree(c.ver)
    IN /\ c.pc = "checkout"
       /\ c.k < Len(files)
       /\ IsDir(fs, repo_path)
       /\ fs' = WithNode(fs, Resolve(fs, repo_path) \o files[c.k + 1][1],
                         FileNode(files[c.k + 1][2]))
       /\ clones' = [clones EXCEPT ![i].k = c.k + 1]
       /\ resp' = NoResp
       /\ UNCHANGED started

\* lines 49-50: git exits non-zero (remote, network or disk failure) after removing
\* what it had created
GitFails(i) ==
    LET c == clones[i]
        repo_path == RepoPath(c.owner, c.repo)
    IN /\ c.pc \in {"git", "checkout"}
       /\ fs' = IF c.pc = "checkout" /\ Exists(fs, repo_path)
                THEN RemoveTree(fs, Resolve(fs, repo_path)) ELSE fs
       /\ clones' = Without(clones, i)
       /\ resp' = Reply("clone", CloneReq(c), Response(500, "Git clone failed: stderr", NoBody))
       /\ UNCHANGED started

\* lines 57-58: the 300 s run out, subprocess.run kills git, which leaves what it wrote
GitTimeout(i) ==
    LET c == clones[i]
    IN /\ c.pc \in {"git", "checkout"}
       /\ clones' = Without(clones, i)
       /\ resp' = Reply("clone", CloneReq(c), Response(500, "Clone operation timed out", NoBody))
       /\ UNCHANGED <<fs, started>>

\* lines 59-60: subprocess.run raises something else (git cannot be executed)
GitRaises(i) ==
    LET c == clones[i]
    IN /\ c.pc = "git"
       /\ clones' = Without(clones, i)
       /\ resp' = Reply("clone", CloneReq(c), Response(500, "OSError", NoBody))
       /\ UNCHANGED <<fs, started>>

\* clone_repo without the test of result.returncode: success is reported whatever
\* git did
CloneSucceedsUnchecked(i) ==
    LET c == clones[i]
    IN /\ c.pc = "checkout"
       /\ clones' = Without(clones, i)
       /\ resp' = Reply("clone", CloneReq(c),
                        Response(200, NoError,
                                 [status |-> "success", path |-> RepoPath(c.owner, c.repo)]))
       /\ UNCHANGED <<fs, started>>

\* lines 49-56: git has written the work tree and exits 0
CloneSucceeds(i) ==
    LET c == clones[i]
    IN /\ c.pc = "checkout"
       /\ c.k = Len(WorkTree(c.ver))
       /\ clones' = Without(clones, i)
       /\ resp' = Reply("clone", CloneReq(c),
                        Response(200, NoError,
                                 [status |-> "success", path |-> RepoPath(c.owner, c.repo)]))
       /\ UNCHANGED <<fs, started>>

CloneSteps ==
    \/ \E i \in DOMAIN clones : CloneRm(i)
    \/ \E i \in DOMAIN clones : CloneRmFails(i)
    \/ \E i \in DOMAIN clones, ver \in Versions : GitStart(i, ver)
    \/ \E i \in DOMAIN clones : GitWrite(i)
    \/ \E i \in DOMAIN clones : GitFails(i)
    \/ \E i \in DOMAIN clones : GitTimeout(i)
    \/ \E i \in DOMAIN clones : GitRaises(i)
    \/ \E i \in DOMAIN clones : CloneSucceeds(i)

-----------------------------------------------------------------------------
(* The requests of a behaviour *)

\* the (owner, repo) pairs requests name: three keys, two of them with one directory
\* name, and pairs with a parameter missing or empty
Keys == {<<A, B>>, <<A, B_B>>, <<A_B, B>>}
BadKeys == {<<None, B>>, <<A, <<>>>>}
KeyInputs == Keys \cup BadKeys

FILE_F == <<"f">>
FILE_G == <<"g">>
GITIGNORE == <<".", "g", "i", "t", "i", "g", "n", "o", "r", "e">>
GIT_CONFIG == GIT \o <<"/">> \o <<"c", "o", "n", "f", "i", "g">>
SIBLING_F == <<".", ".", "/">> \o A \o <<"_">> \o B_B \o <<"/", "f">>
ETC_PASSWD == <<".", ".", "/", ".", ".", "/">> \o ETC \o <<"/">> \o PASSWD
INNER_F == GIT \o <<"/", ".", ".", "/", "f">>
NOPE == <<"n">>

\* the file_path values of get_file requests
GetPaths == {FILE_F, FILE_G, GITIGNORE, GIT, GIT_CONFIG, SIBLING_F, ETC_PASSWD, INNER_F, NOPE}

\* the entries of the file_paths lists of analyze requests
BatchPaths == {FILE_F, FILE_G, SIBLING_F, NOPE}

RECURSIVE SeqsUpTo(_, _)
\* the sequences of at most n elements of S
SeqsUpTo(S, n) ==
    IF n = 0 THEN {<<>>}
    ELSE LET shorter == SeqsUpTo(S, n - 1)
         IN shorter \cup {Append(q, x) : q \in shorter, x \in S}

\* the max_size values of analyze requests
MaxSizes == {Omitted, Given(0 - 1), Given(2)}

\* the read requests of the two specifications: <<owner, repo>>, <<file_path, owner, repo>>
\* and <<owner, repo, file_paths, max_size>>
ListInputs == KeyInputs
FewListInputs == {<<A, B>>, <<A, B_B>>, <<None, B>>}
GetInputs == {<<p, key[1], key[2]>> : p \in GetPaths, key \in Keys}
                \cup {<<FILE_F, key[1], key[2]>> : key \in BadKeys}
AnalyzeInputs ==
    {<<A, B, ps, m>> : ps \in SeqsUpTo(BatchPaths, MaxBatch), m \in MaxSizes}
        \cup {<<key[1], key[2], <<FILE_F>>, Omitted>> : key \in BadKeys}
        \cup {<<A, B, <<GIT, NOPE>>, Omitted>>}
FewGetInputs == {<<FILE_F, A, B>>, <<SIBLING_F, A, B>>, <<FILE_F, None, B>>}
FewAnalyzeInputs == {<<A, B, <<FILE_F, NOPE>>, Given(2)>>, <<A, <<>>, <<FILE_F>>, Omitted>>}

\* the client has taken the response; the readers below answer one request at a time
ClientTakes ==
    /\ resp # NoResp
    /\ resp' = NoResp
    /\ UNCHANGED <<fs, clones, started>>

Health ==
    /\ resp = NoResp
    /\ resp' = Reply("health", <<>>, Response(200, NoError, [status |-> "ok"]))
    /\ UNCHANGED <<fs, clones, started>>

ListReq(owner, repo) ==
    /\ resp = NoResp
    /\ resp' = Reply("list_files", [owner |-> owner, repo |-> repo], ListFiles(fs, owner, repo))
    /\ UNCHANGED <<fs, clones, started>>

\* get_file as a handler that deletes the file it has served
GetReqConsuming(file_path, owner, repo) ==
    LET r == GetFile(fs, file_path, owner, repo)
        full_path == PathJoin(RepoPath(owner, repo), file_path)
    IN /\ resp = NoResp
       /\ resp' = Reply("get_file", [owner |-> owner, repo |-> repo, file_path |-> file_path], r)
       /\ fs' = IF r.status = 200 THEN RemoveTree(fs, Resolve(fs, full_path)) ELSE fs
       /\ UNCHANGED <<clones, started>>

GetReq(file_path, owner, repo) ==
    /\ resp = NoResp
    /\ resp' = Reply("get_file", [owner |-> owner, repo |-> repo, file_path |-> file_path],
                     GetFile(fs, file_path, owner, repo))
    /\ UNCHANGED <<fs, clones, started>>

AnalyzeReq(owner, repo, file_paths, max_size) ==
    /\ resp = NoResp
    /\ resp' = Reply("analyze_files",
                     [owner |-> owner, repo |-> repo, file_paths |-> file_paths,
                      max_size |-> max_size],
                     AnalyzeFiles(fs, owner, repo, file_paths, max_size))
    /\ UNCHANGED <<fs, clones, started>>

\* the handlers that read request.json
JsonHandlers == {"clone_repo", "analyze_files"}

\* lines 24-25 and 137-138 with a request body that is the JSON value null:
\* request.json is None, data.get raises AttributeError before any try block, and
\* the framework answers for the handler with its own 500 page, which has no error field
Unhandled(handler) ==
    /\ resp = NoResp
    /\ resp' = Reply("unhandled", [handler |-> handler, body |-> "null"],
                     Response(500, NoError, [html |-> "Internal Server Error"]))
    /\ UNCHANGED <<fs, clones, started>>

\* the clone requests: one per key, one of them with a credential, and three with a
\* required parameter missing or empty
CloneInputs == {<<RepoUrl, A, B, Token>>, <<RepoUrl, A, B_B, None>>, <<RepoUrl, A_B, B, None>>,
                <<None, A, B, None>>, <<RepoUrl, None, B, Token>>, <<RepoUrl, A, <<>>, None>>}

\* the workers of the server that a clone can occupy at one time
Workers == {"w1", "w2"}

\* the server with its workers: clones overlap each other and the readers
Next ==
    \/ Len(clones) < Cardinality(Workers)
          /\ \E c \in CloneInputs : CloneBegin(c[1], c[2], c[3], c[4])
    \/ CloneSteps
    \/ ClientTakes
    \/ Health
    \/ \E key \in FewListInputs : ListReq(key[1], key[2])
    \/ \E g \in FewGetInputs : GetReq(g[1], g[2], g[3])
    \/ \E a \in FewAnalyzeInputs : AnalyzeReq(a[1], a[2], a[3], a[4])
    \/ \E handler \in JsonHandlers : Unhandled(handler)

Spec == Init /\ [][Next]_vars

\* the server with one clone at a time, and the readers' requests at large
NextRead ==
    \/ clones = <<>> /\ \E c \in CloneInputs : CloneBegin(c[1], c[2], c[3], c[4])
    \/ CloneSteps
    \/ ClientTakes
    \/ Health
    \/ \E key \in ListInputs : ListReq(key[1], key[2])
    \/ \E g \in GetInputs : GetReq(g[1], g[2], g[3])
    \/ \E a \in AnalyzeInputs : AnalyzeReq(a[1], a[2], a[3], a[4])
    \/ \E handler \in JsonHandlers : Unhandled(handler)

SpecRead == Init /\ [][NextRead]_vars

\* an owner with a '..' segment, and the clone requests of the third specification
UP_ETC == <<".", ".", "/">> \o ETC
X == <<"x">>
WideCloneInputs == {<<RepoUrl, UP_ETC, X, None>>, <<RepoUrl, A, B, Token>>}

\* the server with one clone at a time, and owners that are not plain names
NextWide ==
    \/ clones = <<>> /\ \E c \in WideCloneInputs : CloneBegin(c[1], c[2], c[3], c[4])
    \/ CloneSteps
    \/ ClientTakes
    \/ \E key \in {<<UP_ETC, X>>, <<A, B>>} : ListReq(key[1], key[2])

SpecWide == Init /\ [][NextWide]_vars

-----------------------------------------------------------------------------
(* Properties *)

\* the canonical form of an absolute path string: its segments, normalised
Canon(s) == NormComps(Split(s), <<>>, 1)

\* containment by path segments, strict
Inside(target, root) == IsPrefix(root, target) /\ target # root

IsGet == resp.op = "get_file"
IsAnalyze == resp.op = "analyze_files"
IsList == resp.op = "list_files"
IsClone == resp.op = "clone"

\* the snapshot root and the target of the read request that resp answers
ReqRoot == Canon(RepoPath(resp.req.owner, resp.req.repo))
TargetOf(file_path) == Resolve(fs, PathJoin(RepoPath(resp.req.owner, resp.req.repo), file_path))

\* the path has a '..' segment
HasDotDot(file_path) == \E i \in DOMAIN Split(file_path) : Split(file_path)[i] = DOTDOT

\* the path names an existing regular file that is not inside the snapshot root
NamesOutsideFile(file_path) ==
    /\ TargetOf(file_path) # Missing
    /\ ~fs[TargetOf(file_path)].dir
    /\ ~Inside(TargetOf(file_path), ReqRoot)

\* C1: whenever get_file or analyze_files returns content for a path, the canonical
\* target is strictly inside the canonical snapshot root of the key, by path segments
\* (a sibling directory whose name extends the root's name is outside).
C1_AcceptedTargetInsideRoot ==
    /\ (IsGet /\ resp.r.status = 200) => Inside(TargetOf(resp.req.file_path), ReqRoot)
    /\ (IsAnalyze /\ resp.r.status = 200) =>
          \A i \in DOMAIN resp.r.body.files :
              resp.r.body.files[i].error = NoError
                  => Inside(TargetOf(resp.req.file_paths[i]), ReqRoot)

\* C2: a path with a '..' segment that names a file outside the snapshot root is
\* answered by get_file with 400 'Invalid file path' and by analyze_files with that
\* error in its entry and empty content.
C2_TraversalRejected ==
    /\ (IsGet /\ ~Falsy(resp.req.owner) /\ ~Falsy(resp.req.repo)
          /\ HasDotDot(resp.req.file_path) /\ NamesOutsideFile(resp.req.file_path))
          => (resp.r.status = 400 /\ resp.r.error = "Invalid file path")
    /\ (IsAnalyze /\ resp.r.status = 200) =>
          \A i \in DOMAIN resp.r.body.files :
              (HasDotDot(resp.req.file_paths[i]) /\ NamesOutsideFile(resp.req.file_paths[i]))
                  => (resp.r.body.files[i].error = "Invalid file path"
                      /\ resp.r.body.files[i].content = <<>>)

\* the relative path has a directory segment named .git
UnderGit(rel_path) ==
    \E i \in 1..(Len(Split(rel_path)) - 1) : Split(rel_path)[i] = GIT

\* the target of the path is a file below the .git directory of the snapshot root
TargetUnderGit(file_path) ==
    /\ TargetOf(file_path) # Missing
    /\ Inside(TargetOf(file_path), Append(ReqRoot, GIT))

\* C3 as claimed: .git is excluded from listings and from read targets: list_files
\* returns no path under .git, and get_file and analyze_files return no content of a
\* file under the snapshot's .git directory.
C3_GitExcludedEverywhere ==
    /\ (IsList /\ resp.r.status = 200) => \A rec \in Range(resp.r.body.files) : ~UnderGit(rec.path)
    /\ (IsGet /\ resp.r.status = 200) => ~TargetUnderGit(resp.req.file_path)
    /\ (IsAnalyze /\ resp.r.status = 200) =>
          \A i \in DOMAIN resp.r.body.files :
              resp.r.body.files[i].error = NoError => ~TargetUnderGit(resp.req.file_paths[i])

\* C3 as amended: list_files returns no path under .git (the readers get_file and
\* analyze_files do serve the files of .git).
C3_GitExcludedFromListing ==
    (IsList /\ resp.r.status = 200) => \A rec \in Range(resp.r.body.files) : ~UnderGit(rec.path)

\* C3, the case: a listing of a snapshot that has a .git/config and a listed file
C3_Witness ==
    /\ IsList /\ resp.r.status = 200
    /\ resp.r.body.files # <<>>
    /\ Append(ReqRoot, GIT) \o <<<<"c", "o", "n", "f", "i", "g">>>> \in DOMAIN fs

\* the request that resp answers names a key whose snapshot directory exists
KeyPresent ==
    /\ ~(resp.req.owner = None \/ resp.req.owner = <<>>)
    /\ ~(resp.req.repo = None \/ resp.req.repo = <<>>)
    /\ Exists(fs, RepoPath(resp.req.owner, resp.req.repo))

\* C4: with a present snapshot, analyze_files answers with exactly one entry per
\* requested path, the i-th entry carrying the i-th requested path.
C4_BatchCountAndOrder ==
    (IsAnalyze /\ KeyPresent) =>
        /\ resp.r.status = 200
        /\ Len(resp.r.body.files) = Len(resp.req.file_paths)
        /\ \A i \in DOMAIN resp.req.file_paths :
               resp.r.body.files[i].path = resp.req.file_paths[i]

\* C4, the case: a batch that names one path twice, answered entry by entry
C4_Witness ==
    /\ IsAnalyze /\ KeyPresent
    /\ Len(resp.req.file_paths) >= 2
    /\ resp.req.file_paths[1] = resp.req.file_paths[2]
    /\ resp.r.body.files[1].error = NoError

\* the size cap in force for the analyze request that resp answers
CapOf == IF resp.req.max_size.given THEN resp.req.max_size ELSE Given(8000)

\* the path names a regular file inside the snapshot root
NamesInsideFile(file_path) ==
    /\ TargetOf(file_path) # Missing
    /\ ~fs[TargetOf(file_path)].dir
    /\ Inside(TargetOf(file_path), ReqRoot)

\* C5: in a batch, a path that fails (missing, not a file, traversal out of the root)
\* gets an entry with an error and empty content, every other path gets its file's
\* content and no error, and the request succeeds.
C5_BatchIsolation ==
    (IsAnalyze /\ KeyPresent) =>
        /\ resp.r.status = 200
        /\ \A i \in DOMAIN resp.r.body.files :
               LET p == resp.req.file_paths[i]
                   e == resp.r.body.files[i]
               IN IF NamesInsideFile(p)
                  THEN e.error = NoError /\ e.content = ReadText(fs[TargetOf(p)].data, CapOf)
                  ELSE e.error # NoError /\ e.content = <<>>

\* C6: the content analyze_files returns for a file larger than max_size bytes (8000
\* when the request has none) is at most max_size bytes of the file.
C6_Truncation ==
    (IsAnalyze /\ resp.r.status = 200) =>
        \A i \in DOMAIN resp.r.body.files :
            LET p == resp.req.file_paths[i]
                e == resp.r.body.files[i]
            IN (e.error = NoError /\ Size(fs[TargetOf(p)].data) > CapOf.v)
                   => Size(e.content) <= CapOf.v

\* the regular files of the snapshot that are not inside a directory named .git
RegularFiles ==
    {RelPath(q, ReqRoot) : q \in {x \in Below(fs, ReqRoot) : ~fs[x].dir /\ Descends(ReqRoot, x)}}

\* C7: list_files returns one record per regular file that is not inside a directory
\* named .git, and no other record.
C7_ListExact ==
    (IsList /\ resp.r.status = 200) =>
        /\ {rec.path : rec \in Range(resp.r.body.files)} = RegularFiles
        /\ Len(resp.r.body.files) = Cardinality(RegularFiles)

\* the nodes a complete checkout of ver from clone_url has below the root
CheckoutNodes(root, clone_url, ver) ==
    LET files == WorkTree(ver)
        work == {root \o files[i][1] : i \in DOMAIN files}
        git == {Append(root, GIT), Append(root, GIT) \o <<<<"c", "o", "n", "f", "i", "g">>>>}
    IN [q \in git \cup work |->
          IF q = Append(root, GIT) THEN DirNode
          ELSE IF q \in work
               THEN FileNode(files[CHOOSE i \in DOMAIN files : root \o files[i][1] = q][2])
               ELSE FileNode(Runs(clone_url))]

\* the tree below the canonical path root
TreeBelow(root) == [q \in Below(fs, root) |-> fs[q]]

\* C8: when a clone that overlapped no other clone reports success, the key's
\* directory exists and holds exactly the files of that checkout: nothing is left of
\* the snapshot an earlier clone of the key had put there.
C8_CloneReplacesSnapshot ==
    (IsClone /\ resp.r.status = 200 /\ resp.req.alone) =>
        LET root == ReqRoot IN
        /\ root \in DOMAIN fs /\ fs[root].dir
        /\ TreeBelow(root) = CheckoutNodes(root, CloneUrl(resp.req.url, resp.req.token),
                                           resp.req.ver)

\* C8, the case: a second clone of a key succeeds, and a file of the first snapshot is
\* not in the directory any more
C8_Witness ==
    /\ IsClone /\ resp.r.status = 200 /\ resp.req.alone
    /\ \E q \in resp.req.old : q \notin DOMAIN fs

\* the canonical snapshot root of the clone c, and the nodes its git has written
RootOf(c) == Canon(RepoPath(c.owner, c.repo))
WrittenBy(c) ==
    {Append(RootOf(c), GIT), Append(RootOf(c), GIT) \o <<<<"c", "o", "n", "f", "i", "g">>>>}
        \cup {RootOf(c) \o WorkTree(c.ver)[j][1] : j \in 1..c.k}

\* C9: the storage root holds one directory per key at most, and a clone that no
\* other clone overlaps has removed the whole old snapshot before its git starts, so
\* that while git writes, every node of the directory is one this checkout wrote.
C9_DeleteBeforeWrite ==
    /\ \A q \in DOMAIN fs :
          (Len(q) = 2 /\ q[1] = REPO_DIR_NAME) => \E key \in Keys : q = Canon(RepoPath(key[1], key[2]))
    /\ \A i \in DOMAIN clones :
          LET c == clones[i] IN
          c.alone =>
              /\ c.pc = "git" => ~Exists(fs, RepoPath(c.owner, c.repo))
              /\ c.pc = "checkout" => Below(fs, RootOf(c)) \subseteq WrittenBy(c)

\* C9, the case: a clone of a key that had a snapshot is writing its checkout
C9_Witness ==
    \E i \in DOMAIN clones :
        /\ clones[i].alone /\ clones[i].pc = "checkout" /\ clones[i].k >= 1
        /\ \E q \in clones[i].old : q \notin DOMAIN fs

\* a required request parameter is absent or empty
MissingParam(x) == x = None \/ x = <<>>

\* the request lacks a parameter its handler requires
LacksParam(rsp) ==
    /\ rsp.op \in {"clone", "list_files", "get_file", "analyze_files"}
    /\ \/ MissingParam(rsp.req.owner)
       \/ MissingParam(rsp.req.repo)
       \/ rsp.op = "clone" /\ MissingParam(rsp.req.url)

\* C10: a request that lacks a required parameter is answered with 400, and the step
\* that answers it changes neither the filesystem nor the clones in progress.
C10_MissingParamNoEffect ==
    [][(resp' # resp /\ LacksParam(resp'))
          => (resp'.r.status = 400 /\ fs' = fs /\ clones' = clones /\ started' = started)]_vars

\* C10, the case: a clone request without owner is answered while a snapshot exists
C10_Witness ==
    /\ IsClone /\ MissingParam(resp.req.owner) /\ resp.r.status = 400
    /\ Exists(fs, RepoPath(A, B))

\* the clone response that resp holds reports a failure of the checkout (git exited
\* non-zero, timed out or could not be run), not of the removal
CheckoutFailed ==
    /\ IsClone /\ resp.r.status = 500
    /\ resp.r.error # "CalledProcessError"

\* C11: after a clone that overlapped no other clone has deleted the key's snapshot
\* and its checkout has failed, the key's directory does not exist.
C11_FailedCheckoutLeavesAbsent ==
    (CheckoutFailed /\ resp.req.alone /\ resp.req.old # {})
        => ~Exists(fs, RepoPath(resp.req.owner, resp.req.repo))

\* C12: when list_files or analyze_files treats a key as present, a clone request has
\* completed before (the claim requires moreover that one for that key succeeded).
C12_PresentOnlyAfterSuccess ==
    ((IsList \/ IsAnalyze) /\ resp.r.status = 200) => started > Len(clones)

\* resp answers a list_files or analyze_files request, with owner and repo supplied,
\* for the directory that the clone c is working on
ReadsKeyOf(c) ==
    /\ IsList \/ IsAnalyze
    /\ ~MissingParam(resp.req.owner) /\ ~MissingParam(resp.req.repo)
    /\ ReqRoot = RootOf(c)

\* the relative paths of the first k files of the work tree of c's checkout
FirstFiles(c, k) == {RelPath(RootOf(c) \o WorkTree(c.ver)[j][1], RootOf(c)) : j \in 1..k}

\* C13: a reader is not ordered after a clone of its key. While the clone is between
\* its rm and its git the reader is answered 404; while git writes, the reader is
\* answered 200 and a listing holds files git has written so far only; and whatever
\* the reader saw, the directory git writes into stays and success remains enabled
\* once the checkout is complete.
C13_ReaderSeesCloneInProgress ==
    \A i \in DOMAIN clones :
        LET c == clones[i] IN
        c.alone =>
            /\ (ReadsKeyOf(c) /\ c.pc = "git") => resp.r.status = 404
            /\ (ReadsKeyOf(c) /\ c.pc = "checkout") => resp.r.status = 200
            /\ (ReadsKeyOf(c) /\ c.pc = "checkout" /\ IsList) =>
                  {rec.path : rec \in Range(resp.r.body.files)} \subseteq FirstFiles(c, c.k)
            /\ (c.pc = "checkout") => IsDir(fs, RepoPath(c.owner, c.repo))
            /\ (c.pc = "checkout" /\ c.k = Len(WorkTree(c.ver))) => ENABLED CloneSucceeds(i)

\* C13, the case: the key had a snapshot, its clone is half way through the checkout,
\* and list_files is answered from the partly written directory
C13_Witness ==
    \E i \in DOMAIN clones :
        /\ clones[i].alone /\ clones[i].old # {}
        /\ clones[i].pc = "checkout" /\ clones[i].k < Len(WorkTree(clones[i].ver))
        /\ ReadsKeyOf(clones[i]) /\ IsList /\ resp.r.status = 200

\* the error fields of the failure branches of clone_repo: git's exit code, the
\* timeout, any other exception
ToolErrors == {"Git clone failed: stderr", "Git clone failed: destination exists"}
TimeoutErrors == {"Clone operation timed out"}
OtherErrors == {"CalledProcessError", "OSError"}

\* C14: every step that answers a clone request that had its parameters ends one
\* clone in exactly one way: success with the snapshot root path, only when git has
\* written the whole work tree and exited 0; or 500 with git's diagnostic; or 500 for
\* the timeout; or 500 for another exception.
C14_CloneOutcomes ==
    [][(resp' # resp /\ resp'.op = "clone" /\ ~LacksParam(resp'))
          => \E i \in DOMAIN clones :
                LET c == clones[i]
                    r == resp'.r
                IN /\ clones' = Without(clones, i)
                   /\ resp'.req = CloneReq(c)
                   /\ \/ /\ r.status = 200 /\ r.error = NoError
                         /\ r.body = [status |-> "success", path |-> RepoPath(c.owner, c.repo)]
                         /\ c.pc = "checkout" /\ c.k = Len(WorkTree(c.ver))
                      \/ r.status = 500 /\ r.error \in ToolErrors /\ r.body = NoBody
                                        /\ c.pc \in {"git", "checkout"}
                      \/ r.status = 500 /\ r.error \in TimeoutErrors /\ r.body = NoBody
                                        /\ c.pc \in {"git", "checkout"}
                      \/ r.status = 500 /\ r.error \in OtherErrors /\ r.body = NoBody
                                        /\ c.pc \in {"rm", "git"}]_vars

\* C14, the case: a clone with a credential has succeeded
C14_Witness ==
    /\ IsClone /\ resp.r.status = 200
    /\ resp.req.token = Token
    /\ resp.r.body.path = RepoPath(A, B)

\* the kinds of failure of the taxonomy, as status and error field
Taxonomy ==
    ({400} \X {"Missing required parameters", "Missing owner or repo parameter",
               "Invalid file path", "Path is not a file"})
        \cup ({404} \X {"Repository not cloned", "File not found"})
        \cup ({500} \X (ToolErrors \cup TimeoutErrors \cup OtherErrors))

\* C15: every response that is not a success carries an error field and is of one
\* kind of the taxonomy, whatever the request's body.
C15_FailuresConverted ==
    (resp # NoResp /\ resp.r.status # 200)
        => (resp.r.error # NoError /\ <<resp.r.status, resp.r.error>> \in Taxonomy)

\* resp answers list_files or analyze_files for a request that names owner and repo
ReadsAKey ==
    /\ IsList \/ IsAnalyze
    /\ ~MissingParam(resp.req.owner) /\ ~MissingParam(resp.req.repo)

\* C16: list_files and analyze_files, given owner and repo, answer 404 exactly when
\* the key's directory does not exist; analyze_files answers 200 for an existing
\* directory whatever the paths it is asked for.
C16_NotFoundIffAbsent ==
    ReadsAKey =>
        /\ resp.r.status = 404 <=> ~Exists(fs, RepoPath(resp.req.owner, resp.req.repo))
        /\ resp.r.status = 404 => resp.r.error = "Repository not cloned"
        /\ (IsAnalyze /\ Exists(fs, RepoPath(resp.req.owner, resp.req.repo)))
              => resp.r.status = 200

\* C16, the case: analyze_files for a present key, none of whose paths can be read,
\* is answered 200
C16_Witness ==
    /\ IsAnalyze /\ ReadsAKey /\ resp.r.status = 200
    /\ resp.req.file_paths # <<>>
    /\ \A i \in DOMAIN resp.r.body.files : resp.r.body.files[i].error # NoError

\* the path names a directory inside the snapshot root
NamesDir(file_path) ==
    /\ TargetOf(file_path) # Missing
    /\ fs[TargetOf(file_path)].dir
    /\ Inside(TargetOf(file_path), ReqRoot)

\* the path, normalised, lies inside the snapshot root and names nothing
NamesNothing(file_path) ==
    /\ TargetOf(file_path) = Missing
    /\ Inside(Canon(PathJoin(RepoPath(resp.req.owner, resp.req.repo), file_path)), ReqRoot)

\* the path names a regular file
NamesFile(file_path) == TargetOf(file_path) # Missing /\ ~fs[TargetOf(file_path)].dir

\* get_file tells a directory (400 'Path is not a file') from a missing target
\* (404 'File not found') and reads regular files only
GetTellsApart ==
    (IsGet /\ ~MissingParam(resp.req.owner) /\ ~MissingParam(resp.req.repo)) =>
        /\ NamesDir(resp.req.file_path)
              => (resp.r.status = 400 /\ resp.r.error = "Path is not a file")
        /\ NamesNothing(resp.req.file_path)
              => (resp.r.status = 404 /\ resp.r.error = "File not found")
        /\ resp.r.status = 200 => NamesFile(resp.req.file_path)

\* C17: get_file and analyze_files both reject a directory as NotAFile and
\* a missing target as NotFound, and read only existing regular files.
C17_DistinctKindsEverywhere ==
    /\ GetTellsApart
    /\ (IsAnalyze /\ resp.r.status = 200) =>
          \A i \in DOMAIN resp.r.body.files :
              LET p == resp.req.file_paths[i]
                  e == resp.r.body.files[i]
              IN /\ NamesDir(p) => (e.error = "Path is not a file" /\ e.content = <<>>)
                 /\ NamesNothing(p) => (e.error = "File not found" /\ e.content = <<>>)
                 /\ e.error = NoError => NamesFile(p)

\* this step is taken by the handler of the i-th clone and the clone goes on
Continues(i) == Len(clones') = Len(clones) /\ clones'[i] # clones[i]

\* this step ends the i-th clone with a response
Ends(i) == clones' = Without(clones, i) /\ resp'.op = "clone" /\ resp'.req = CloneReq(clones[i])

\* C18: a clone that is at its rm goes on to git only with the key's path gone, and a
\* clone whose rm has failed is answered 500 in that step, without anything new in the
\* filesystem; a checkout is begun only by a clone that has passed its rm.
C18_DeleteFailureAborts ==
    [][\A i \in DOMAIN clones :
          LET c == clones[i]
              repo_path == RepoPath(c.owner, c.repo)
          IN /\ (c.pc = "rm" /\ Continues(i))
                   => (clones'[i].pc = "git" /\ ~Exists(fs', repo_path))
             /\ (c.pc = "rm" /\ Ends(i) /\ Len(clones') < Len(clones))
                   => (resp'.r.status = 500 /\ DOMAIN fs' \subseteq DOMAIN fs)
             /\ (Continues(i) /\ clones'[i].pc = "checkout" /\ c.pc # "checkout")
                   => c.pc = "git"]_vars

\* C18, the case: rm -rf has failed, the clone is answered 500 and what rm left of
\* the old directory is still there
C18_Witness ==
    /\ IsClone /\ resp.r.status = 500 /\ resp.r.error = "CalledProcessError"
    /\ Exists(fs, RepoPath(resp.req.owner, resp.req.repo))

\* C19: with a non-negative max_size (8000 when omitted), the content analyze_files
\* returns for a file is at most max_size raw bytes of that file, multi-byte
\* characters included.
C19_CapCountsBytes ==
    (IsAnalyze /\ resp.r.status = 200 /\ CapOf.v >= 0) =>
        \A i \in DOMAIN resp.r.body.files :
            resp.r.body.files[i].error = NoError
                => Size(resp.r.body.files[i].content) <= CapOf.v

\* a handler that only reads has answered in this step
ReaderAnswers ==
    /\ resp' # resp
    /\ resp'.op \in {"health", "list_files", "get_file", "analyze_files", "unhandled"}

\* C20: a step in which health, list_files, get_file or analyze_files answers leaves
\* the filesystem as it was, and every step that changes the filesystem is a step of
\* a clone in progress.
C20_OnlyCloneWrites ==
    [][/\ ReaderAnswers => fs' = fs
       /\ fs' # fs => (clones # <<>> /\ clones' # clones)]_vars

\* C20, the case: get_file has returned a file of a snapshot, which is still there
C20_Witness ==
    /\ IsGet /\ resp.r.status = 200 /\ resp.req.file_path = FILE_F
    /\ NamesFile(FILE_F)

\* what the filesystem f holds at and below the directory of the key
KeyTree(f, key) ==
    LET root == Canon(RepoPath(key[1], key[2]))
    IN [q \in {x \in DOMAIN f : IsPrefix(root, x)} |-> f[q]]

\* C21: a step of the clone of one key that changes the filesystem leaves what exists
\* under every other key as it was.
C21_KeyIsolation ==
    [][\A i \in DOMAIN clones :
          (Len(clones) = 1 /\ fs' # fs) =>
              \A key \in Keys :
                  (key # <<clones[i].owner, clones[i].repo>>
                      /\ Exists(fs, RepoPath(key[1], key[2])))
                      => KeyTree(fs', key) = KeyTree(fs, key)]_vars

\* the canonical path q lies strictly inside the storage root
InStorageRoot(q) == Len(q) >= 2 /\ q[1] = REPO_DIR_NAME

\* C22: every node that a step creates, removes or changes lies strictly inside the
\* storage root /repos, whatever the owner and repo strings of the clone.
C22_CloneConfined ==
    [][\A q \in DOMAIN fs \cup DOMAIN fs' :
          (q \notin DOMAIN fs \/ q \notin DOMAIN fs' \/ fs[q] # fs'[q])
              => InStorageRoot(q)]_vars

\* the content d holds the characters of the string s in a row
Mentions(d, s) == Contains(d, Runs(s))

\* C23: no response holds the token a clone was given: not the clone's own response,
\* not the content get_file or analyze_files returns.
C23_TokenNotInResponses ==
    /\ (IsClone /\ resp.r.status = 200) => ~Contains(resp.r.body.path, Token)
    /\ (IsGet /\ resp.r.status = 200) => ~Mentions(resp.r.body.content, Token)
    /\ (IsAnalyze /\ resp.r.status = 200) =>
          \A i \in DOMAIN resp.r.body.files : ~Mentions(resp.r.body.files[i].content, Token)

\* the path, joined to the snapshot root and normalised, is not at or below the root
LexOutside(file_path) ==
    ~IsPrefix(ReqRoot, Canon(PathJoin(RepoPath(resp.req.owner, resp.req.repo), file_path)))

\* C24: a path that leads out of the key's snapshot root is answered by get_file with
\* 400 'Invalid file path' and by analyze_files with that error in its entry, whether
\* or not anything exists where it leads and whether or not the snapshot exists.
C24_NoExistenceOracle ==
    /\ (IsGet /\ ~MissingParam(resp.req.owner) /\ ~MissingParam(resp.req.repo)
          /\ LexOutside(resp.req.file_path))
          => (resp.r.status = 400 /\ resp.r.error = "Invalid file path")
    /\ (IsAnalyze /\ resp.r.status = 200) =>
          \A i \in DOMAIN resp.r.body.files :
              LexOutside(resp.req.file_paths[i])
                  => (resp.r.body.files[i].error = "Invalid file path"
                      /\ resp.r.body.files[i].content = <<>>)

\* the URLs git is given by the clone requests
CloneUrls == {CloneUrl(c[1], c[4]) : c \in {x \in CloneInputs : ~Falsy(x[1])}}

\* the directory at root holds a complete checkout, of some state of the remote
HoldsCompleteCheckout(root) ==
    /\ root \in DOMAIN fs /\ fs[root].dir
    /\ \E ver \in Versions, u \in CloneUrls : TreeBelow(root) = CheckoutNodes(root, u, ver)

\* C25: whenever a clone reports success, overlapped by other clones or not, the
\* key's directory holds a complete checkout at that moment.
C25_SuccessMeansComplete ==
    (IsClone /\ resp.r.status = 200) => HoldsCompleteCheckout(ReqRoot)

\* C26: with no clone in progress, every path that list_files returns for a key is
\* answered by get_file for that key with 200 and the file's content, and has an
\* entry without error in analyze_files.
C26_ListedPathsReadable ==
    (IsList /\ resp.r.status = 200 /\ clones = <<>>) =>
        \A rec \in Range(resp.r.body.files) :
            LET g == GetFile(fs, rec.path, resp.req.owner, resp.req.repo)
                a == AnalyzeFiles(fs, resp.req.owner, resp.req.repo, <<rec.path>>, Omitted)
            IN /\ g.status = 200
               /\ NamesFile(rec.path)
               /\ g.body.content = Decode(fs[TargetOf(rec.path)].data)
               /\ a.status = 200 /\ a.body.files[1].error = NoError

\* C26, the case: a listing with a file in it, of a key no clone is working on
C26_Witness ==
    /\ IsList /\ resp.r.status = 200 /\ clones = <<>>
    /\ \E rec \in Range(resp.r.body.files) : rec.path = FILE_F

RECURSIVE TextPrefix(_, _)
\* the text a is a beginning of the text b
TextPrefix(a, b) ==
    IF a = <<>> THEN TRUE
    ELSE IF b = <<>> \/ Head(a).ch # Head(b).ch THEN FALSE
    ELSE IF Head(a).n = Head(b).n THEN TextPrefix(Tail(a), Tail(b))
    ELSE Head(a).n < Head(b).n /\ Tail(a) = <<>>

====
